---- MODULE Spec2Model ----
(***************************************************************************)
(* Model of src/src/func/NuevaClase.py: the class Obj3D (local frame with  *)
(* indexed offsets along three axes, plus the parent/child composition)    *)
(* and the catalog classes placa and hole.                                 *)
(*                                                                         *)
(* Python values are modelled as tuples told apart by their length:        *)
(*   None            <<>>                                                  *)
(*   a number n      <<n>>                                                 *)
(*   FreeCAD.Vector  <<x, y, z>>                                           *)
(* An object is a record of its attributes; the field attrs is the set of  *)
(* attribute names the instance really has (reading one that is not in it  *)
(* raises AttributeError).  The attributes name and doc are never read by  *)
(* the modelled methods and are left out.                                  *)
(* An index map (d_o, w_o, h_o) is a function from its keys to values.     *)
(* A child table (dict_child, ...) is a sequence of <<key, value>> pairs   *)
(* in insertion order, as a Python dict iterates.                          *)
(***************************************************************************)
EXTENDS Integers, Sequences, FiniteSets, TLC

VARIABLES
    self,     \* the Obj3D instance under study (a frame, or a parent)
    child,    \* the child parts: child[c] is a record of d_o, w_o, h_o, shp
    ret,      \* the last call: its name, arguments and outcome
    nadd,     \* number of add_child calls made on self
    nmut,     \* number of modifications made to children after construction
    other,    \* a second parent, registered in a permuted order
    regs,     \* the registrations to replay on self and other
    perm,     \* the order in which other replays regs
    step      \* number of registrations replayed so far

vars == <<self, child, ret, nadd, nmut, other, regs, perm, step>>

-----------------------------------------------------------------------------
(* Bounds of the model *)

MaxIdx == 2
MaxAdds == 2
MaxMuts == 1
MaxRegs == 3

-----------------------------------------------------------------------------
(* Python values *)

None == <<>>
Num(n) == <<n>>
IsNone(v) == Len(v) = 0
IsNum(v) == Len(v) = 1
IsVec(v) == Len(v) = 3

V0 == <<0, 0, 0>>
VX == <<1, 0, 0>>
VY == <<0, 1, 0>>
VZ == <<0, 0, 1>>

Abs(n) == IF n < 0 THEN -n ELSE n
Sgn(n) == IF n < 0 THEN -1 ELSE IF n > 0 THEN 1 ELSE 0

(* The outcome of a call: a returned value, or a raised exception.  log    *)
(* tells whether logger.error was called on the way.                       *)
Ok(v) == [out |-> "return", val |-> v, exc |-> "", log |-> FALSE]
Raise(e) == [out |-> "raise", val |-> None, exc |-> e, log |-> FALSE]
WithLog(r, l) == [r EXCEPT !.log = r.log \/ l]

(* a + b on numbers and vectors *)
PyAdd(a, b) ==
    IF IsVec(a) /\ IsVec(b)
    THEN Ok(<<a[1] + b[1], a[2] + b[2], a[3] + b[3]>>)
    ELSE IF IsNum(a) /\ IsNum(b) THEN Ok(Num(a[1] + b[1]))
    ELSE Raise("TypeError")

(* a.sub(b): a method of FreeCAD.Vector *)
VecSub(a, b) ==
    IF ~IsVec(a) THEN Raise("AttributeError")
    ELSE IF ~IsVec(b) THEN Raise("TypeError")
    ELSE Ok(<<a[1] - b[1], a[2] - b[2], a[3] - b[3]>>)

(* a.negative(): a method of FreeCAD.Vector *)
VecNegative(a) ==
    IF ~IsVec(a) THEN Raise("AttributeError")
    ELSE Ok(<<-a[1], -a[2], -a[3]>>)

(* DraftVecUtils.scaleTo(u, l) for a vector along one coordinate axis: the *)
(* vector of length l in its direction; a zero-length vector has no        *)
(* direction and comes back as the zero vector.                            *)
scaleTo(u, l) == <<Sgn(u[1]) * l, Sgn(u[2]) * l, Sgn(u[3]) * l>>

(* DraftVecUtils.scale(u, s) *)
scale(u, s) == <<u[1] * s, u[2] * s, u[3] * s>>

-----------------------------------------------------------------------------
(* Obj3D: construction *)

EmptyMap == <<>>
EmptyDict == <<>>

(* An instance before __init__ has run: no attribute at all. *)
Blank ==
    [attrs |-> {},
     axis_d |-> None, axis_w |-> None, axis_h |-> None,
     d_o |-> EmptyMap, w_o |-> EmptyMap, h_o |-> EmptyMap,
     d0_cen |-> 0, w0_cen |-> 0, h0_cen |-> 0,
     pos |-> None, pos_d |-> 0, pos_w |-> 0, pos_h |-> 0,
     pos_o |-> None, pos_o_adjust |-> None,
     shp |-> {},
     dict_child |-> EmptyDict, dict_child_sum |-> EmptyDict,
     dict_child_res |-> EmptyDict]

(* One axis of Obj3D.__init__: a given axis is normalised; a missing one   *)
(* becomes V0, with index 0 at V0 and the anchor index 0.                  *)
InitAxis(obj, axis, o, p, a) ==
    IF ~IsNone(a)
    THEN [obj EXCEPT ![axis] = scaleTo(a, 1),
                     !.attrs = @ \cup {axis}]
    ELSE [obj EXCEPT ![o] = (0 :> V0) @@ @,
                     ![p] = 0,
                     ![axis] = V0,
                     !.attrs = @ \cup {axis, p}]

Obj3D_init(obj, axis_d, axis_w, axis_h) ==
    LET o0 == [obj EXCEPT !.d_o = EmptyMap, !.w_o = EmptyMap, !.h_o = EmptyMap,
                          !.dict_child = EmptyDict,
                          !.dict_child_sum = EmptyDict,
                          !.dict_child_res = EmptyDict,
                          !.attrs = @ \cup {"d_o", "w_o", "h_o", "dict_child",
                                            "dict_child_sum", "dict_child_res"}]
        o1 == InitAxis(o0, "axis_h", "h_o", "pos_h", axis_h)
        o2 == InitAxis(o1, "axis_d", "d_o", "pos_d", axis_d)
        o3 == InitAxis(o2, "axis_w", "w_o", "pos_w", axis_w)
    IN  [o3 EXCEPT !.pos_o_adjust = V0, !.attrs = @ \cup {"pos_o_adjust"}]

vec_d(obj, d) == scale(obj.axis_d, d)
vec_w(obj, w) == scale(obj.axis_w, w)
vec_h(obj, h) == scale(obj.axis_h, h)

-----------------------------------------------------------------------------
(* Obj3D: resolving an index to an offset *)

(* The except KeyError branch: the error is logged and the method falls    *)
(* off its end, which returns None.                                        *)
KeyErrorLogged == [out |-> "return", val |-> None, exc |-> "", log |-> TRUE]

(* get_o_to with the operands of sub exchanged: D = C - B *)
get_o_to_swapped(obj, cen, o, p) ==
    IF cen \notin obj.attrs THEN Raise("AttributeError")
    ELSE IF obj[cen] = 1
    THEN IF p <= 0
         THEN IF Abs(p) \in DOMAIN obj[o]
              THEN Ok(obj[o][Abs(p)])
              ELSE KeyErrorLogged
         ELSE IF 0 \notin DOMAIN obj[o] THEN KeyErrorLogged
              ELSE IF p \notin DOMAIN obj[o] THEN KeyErrorLogged
              ELSE IF ~IsVec(obj[o][p]) THEN Raise("AttributeError")
              ELSE LET vec_0_to == VecSub(obj[o][p], obj[o][0])
                   IN  IF vec_0_to.out = "raise" THEN vec_0_to
                       ELSE PyAdd(obj[o][0], vec_0_to.val)
    ELSE IF p \in DOMAIN obj[o]
         THEN Ok(obj[o][p])
         ELSE KeyErrorLogged

(* The body shared by get_o_to_d, get_o_to_w and get_o_to_h; cen and o     *)
(* name the symmetry flag and the index map of the axis.                   *)
get_o_to(obj, cen, o, p) ==
    IF cen \notin obj.attrs THEN Raise("AttributeError")
    ELSE IF obj[cen] = 1
    THEN IF p <= 0
         THEN IF Abs(p) \in DOMAIN obj[o]
              THEN Ok(obj[o][Abs(p)])
              ELSE KeyErrorLogged
         ELSE IF 0 \notin DOMAIN obj[o] THEN KeyErrorLogged
              ELSE IF ~IsVec(obj[o][0]) THEN Raise("AttributeError")
              ELSE IF p \notin DOMAIN obj[o] THEN KeyErrorLogged
              ELSE LET vec_0_to == VecSub(obj[o][0], obj[o][p])
                   IN  IF vec_0_to.out = "raise" THEN vec_0_to
                       ELSE PyAdd(obj[o][0], vec_0_to.val)
    ELSE IF p \in DOMAIN obj[o]
         THEN Ok(obj[o][p])
         ELSE KeyErrorLogged

get_o_to_d(obj, pos_d) == get_o_to(obj, "d0_cen", "d_o", pos_d)
get_o_to_w(obj, pos_w) == get_o_to(obj, "w0_cen", "w_o", pos_w)
get_o_to_h(obj, pos_h) == get_o_to(obj, "h0_cen", "h_o", pos_h)

(* a + b where a and b are outcomes: the first exception wins *)
AddR(ra, rb) ==
    IF ra.out = "raise" THEN ra
    ELSE IF rb.out = "raise" THEN WithLog(rb, ra.log)
    ELSE WithLog(PyAdd(ra.val, rb.val), ra.log \/ rb.log)

(* self.x as an outcome *)
Attr(obj, x) == IF x \in obj.attrs THEN Ok(obj[x]) ELSE Raise("AttributeError")

(* f(self.x) where reading self.x may fail *)
OnAnchor(obj, x, r) == IF x \in obj.attrs THEN r ELSE Raise("AttributeError")

(* set_pos_o recording the adjustment whatever adjust is *)
set_pos_o_always_adjust(obj, adjust) ==
    LET vec_from_pos_o ==
            AddR(AddR(OnAnchor(obj, "pos_d", get_o_to_d(obj, obj.pos_d)),
                      OnAnchor(obj, "pos_w", get_o_to_w(obj, obj.pos_w))),
                 OnAnchor(obj, "pos_h", get_o_to_h(obj, obj.pos_h)))
        vec_to_pos_o ==
            IF vec_from_pos_o.out = "raise" THEN vec_from_pos_o
            ELSE WithLog(VecNegative(vec_from_pos_o.val), vec_from_pos_o.log)
        pos_o == AddR(WithLog(Attr(obj, "pos"), vec_to_pos_o.log), vec_to_pos_o)
    IN  IF vec_to_pos_o.out = "raise" THEN [obj |-> obj, ret |-> vec_to_pos_o]
        ELSE IF pos_o.out = "raise" THEN [obj |-> obj, ret |-> pos_o]
        ELSE [obj |-> [obj EXCEPT
                         !.pos_o = pos_o.val,
                         !.pos_o_adjust = vec_to_pos_o.val,
                         !.attrs = @ \cup {"pos_o", "pos_o_adjust"}],
              ret |-> WithLog(Ok(None), pos_o.log)]

(* set_pos_o: the new object and the outcome of the call *)
set_pos_o(obj, adjust) ==
    LET vec_from_pos_o ==
            AddR(AddR(OnAnchor(obj, "pos_d", get_o_to_d(obj, obj.pos_d)),
                      OnAnchor(obj, "pos_w", get_o_to_w(obj, obj.pos_w))),
                 OnAnchor(obj, "pos_h", get_o_to_h(obj, obj.pos_h)))
        vec_to_pos_o ==
            IF vec_from_pos_o.out = "raise" THEN vec_from_pos_o
            ELSE WithLog(VecNegative(vec_from_pos_o.val), vec_from_pos_o.log)
        pos_o == AddR(WithLog(Attr(obj, "pos"), vec_to_pos_o.log), vec_to_pos_o)
    IN  IF vec_to_pos_o.out = "raise" THEN [obj |-> obj, ret |-> vec_to_pos_o]
        ELSE IF pos_o.out = "raise" THEN [obj |-> obj, ret |-> pos_o]
        ELSE [obj |-> [obj EXCEPT
                         !.pos_o = pos_o.val,
                         !.pos_o_adjust = IF adjust = 1 THEN vec_to_pos_o.val ELSE @,
                         !.attrs = @ \cup {"pos_o"}
                                     \cup (IF adjust = 1 THEN {"pos_o_adjust"} ELSE {})],
              ret |-> WithLog(Ok(None), pos_o.log)]

get_pos_dwh(obj, pos_d, pos_w, pos_h) ==
    AddR(AddR(AddR(Attr(obj, "pos_o"), get_o_to_d(obj, pos_d)),
              get_o_to_w(obj, pos_w)),
         get_o_to_h(obj, pos_h))

-----------------------------------------------------------------------------
(* Solids of the geometry kernel: a solid is the set of unit cells it      *)
(* fills, fusing is union and cutting is set difference.                   *)

(* fcfun.shp_boxcen(x, y, z, cx=False, cy=False, cz=False, pos): the box   *)
(* with a corner at pos *)
shp_boxcen(x, y, z, pos) ==
    {<<pos[1] + i, pos[2] + j, pos[3] + k>> :
        i \in 0..(x - 1), j \in 0..(y - 1), k \in 0..(z - 1)}

(* fcfun.shp_cyl(r, h, axis_h, pos) for axis_h = VZ: the cells around the  *)
(* axis through pos, up to height h *)
shp_cyl(r, h, pos) ==
    {<<pos[1] + i, pos[2] + j, pos[3] + k>> :
        i \in (-r)..(r - 1), j \in (-r)..(r - 1), k \in 0..(h - 1)}

RECURSIVE fuseshplist(_)
fuseshplist(shp_list) ==
    IF shp_list = <<>> THEN {}
    ELSE shp_list[Len(shp_list)]
         \cup fuseshplist(SubSeq(shp_list, 1, Len(shp_list) - 1))

cut(shp, tool) == shp \ tool

-----------------------------------------------------------------------------
(* The catalog parts *)

(* L / 2 on the even lengths the model uses, where true division and floor *)
(* division give the same number *)
Half(L) == L \div 2

(* the nine assignments d_o[0] = 0, d_o[1] = L_d/2, d_o[2] = L_d, ... *)
FillMaps(obj, L_d, L_w, L_h) ==
    [obj EXCEPT
        !.d_o = (0 :> Num(0)) @@ (1 :> Num(Half(L_d))) @@ (2 :> Num(L_d)) @@ @,
        !.w_o = (0 :> Num(0)) @@ (1 :> Num(Half(L_w))) @@ (2 :> Num(L_w)) @@ @,
        !.h_o = (0 :> Num(0)) @@ (1 :> Num(Half(L_h))) @@ (2 :> Num(L_h)) @@ @]

placa_init(obj, L_d, L_w, L_h, axis_d, axis_w, axis_h) ==
    LET o0 == [obj EXCEPT !.shp = shp_boxcen(L_d, L_w, L_h, V0),
                          !.axis_d = axis_d, !.axis_h = axis_h, !.axis_w = axis_w,
                          !.attrs = @ \cup {"shp", "axis_d", "axis_h", "axis_w"}]
    IN  FillMaps(Obj3D_init(o0, o0.axis_d, o0.axis_w, o0.axis_h), L_d, L_w, L_h)

hole_init(obj, r, h, axis_d, axis_w, axis_h, pos) ==
    LET o0 == [obj EXCEPT !.shp = shp_cyl(r, h, pos),
                          !.axis_d = axis_d, !.axis_h = axis_h, !.axis_w = axis_w,
                          !.attrs = @ \cup {"shp", "axis_d", "axis_h", "axis_w"}]
    IN  FillMaps(Obj3D_init(o0, o0.axis_d, o0.axis_w, o0.axis_h), r, r, h)

-----------------------------------------------------------------------------
(* Obj3D: composition *)

KeySet(d) == {d[i][1] : i \in 1..Len(d)}
DictGet(d, k) == d[CHOOSE i \in 1..Len(d) : d[i][1] = k][2]
(* d[k] = v: a new key goes last, an old key keeps its place *)
DictSet(d, k, v) ==
    IF k \in KeySet(d)
    THEN [i \in 1..Len(d) |-> IF d[i][1] = k THEN <<k, v>> ELSE d[i]]
    ELSE Append(d, <<k, v>>)

(* The dict add_child builds from a child: its three index maps, each the  *)
(* very dict object the child holds (named here by child and attribute),   *)
(* and the shape object child.shp is bound to at that time.                *)
ChildRecord(c) ==
    [child_d_o |-> <<c, "d_o">>, child_w_o |-> <<c, "w_o">>,
     child_h_o |-> <<c, "h_o">>, child_shp |-> child[c].shp]

(* add_child that files only additive children in a sub-table *)
add_child_sum_only(obj, c, child_sum, child_name) ==
    LET o1 == [obj EXCEPT !.dict_child =
                   DictSet(@, child_name, ChildRecord(c))]
    IN  IF child_sum = 1
        THEN [o1 EXCEPT !.dict_child_sum =
                  DictSet(@, child_name, ChildRecord(c))]
        ELSE o1

add_child(obj, c, child_sum, child_name) ==
    LET o1 == [obj EXCEPT !.dict_child = DictSet(@, child_name, ChildRecord(c))]
    IN  IF child_sum = 1
        THEN [o1 EXCEPT !.dict_child_sum = DictSet(@, child_name, ChildRecord(c))]
        ELSE [o1 EXCEPT !.dict_child_res = DictSet(@, child_name, ChildRecord(c))]

get_child(obj) == obj.dict_child

(* the reference make_parent returns: the object itself *)
SelfRef == <<"self", "">>

(* make_parent without its first test: a parent without children gets the *)
(* shape of nothing cut from nothing *)
make_parent_unguarded(obj, name) ==
    LET shp_sum_list == [i \in 1..Len(obj.dict_child_sum) |->
            DictGet(obj.dict_child, obj.dict_child_sum[i][1]).child_shp]
        shp_res_list == [i \in 1..Len(obj.dict_child_res) |->
            DictGet(obj.dict_child, obj.dict_child_res[i][1]).child_shp]
    IN  [obj |-> [obj EXCEPT !.shp = cut(fuseshplist(shp_sum_list),
                                         fuseshplist(shp_res_list)),
                             !.attrs = @ \cup {"shp"}],
         ret |-> Ok(SelfRef)]

(* make_parent that fuses nothing: the last shape of each list stands for  *)
(* the list *)
make_parent_last_only(obj, name) ==
    IF Len(obj.dict_child) = 0 THEN [obj |-> obj, ret |-> Ok(None)]
    ELSE IF Len(obj.dict_child_sum) = 0 /\ Len(obj.dict_child_res) = 0
    THEN [obj |-> obj, ret |-> Ok(None)]
    ELSE LET shp_sum_list == [i \in 1..Len(obj.dict_child_sum) |->
                 DictGet(obj.dict_child, obj.dict_child_sum[i][1]).child_shp]
             shp_res_list == [i \in 1..Len(obj.dict_child_res) |->
                 DictGet(obj.dict_child, obj.dict_child_res[i][1]).child_shp]
             last(l) == IF l = <<>> THEN {} ELSE l[Len(l)]
         IN  [obj |-> [obj EXCEPT !.shp = cut(last(shp_sum_list), last(shp_res_list)),
                                  !.attrs = @ \cup {"shp"}],
              ret |-> Ok(SelfRef)]

(* make_parent that uses up the subtractive table: its entries are taken   *)
(* out as their shapes are cut *)
make_parent_consuming(obj, name) ==
    IF Len(obj.dict_child) = 0 THEN [obj |-> obj, ret |-> Ok(None)]
    ELSE IF Len(obj.dict_child_sum) = 0 /\ Len(obj.dict_child_res) = 0
    THEN [obj |-> obj, ret |-> Ok(None)]
    ELSE LET shp_sum_list == [i \in 1..Len(obj.dict_child_sum) |->
                 DictGet(obj.dict_child, obj.dict_child_sum[i][1]).child_shp]
             shp_res_list == [i \in 1..Len(obj.dict_child_res) |->
                 DictGet(obj.dict_child, obj.dict_child_res[i][1]).child_shp]
         IN  [obj |-> [obj EXCEPT !.shp = cut(fuseshplist(shp_sum_list),
                                              fuseshplist(shp_res_list)),
                                  !.dict_child_res = EmptyDict,
                                  !.attrs = @ \cup {"shp"}],
              ret |-> Ok(SelfRef)]

(* make_parent: the new object and the outcome of the call *)
make_parent(obj, name) ==
    IF Len(obj.dict_child) = 0 THEN [obj |-> obj, ret |-> Ok(None)]
    ELSE IF Len(obj.dict_child_sum) = 0 /\ Len(obj.dict_child_res) = 0
    THEN [obj |-> obj, ret |-> Ok(None)]
    ELSE LET shp_sum_list == [i \in 1..Len(obj.dict_child_sum) |->
                 DictGet(obj.dict_child, obj.dict_child_sum[i][1]).child_shp]
             shp_res_list == [i \in 1..Len(obj.dict_child_res) |->
                 DictGet(obj.dict_child, obj.dict_child_res[i][1]).child_shp]
             shp_sum == fuseshplist(shp_sum_list)
             shp_res == fuseshplist(shp_res_list)
         IN  [obj |-> [obj EXCEPT !.shp = cut(shp_sum, shp_res),
                                  !.attrs = @ \cup {"shp"}],
              ret |-> Ok(SelfRef)]

-----------------------------------------------------------------------------
(* The values the model draws its inputs from *)

Children == {"c1", "c2"}
(* child_name: the default None (written "None") or a string *)
Names == {"None", "hole"}
ReplayNames == Names \cup {"placa"}
Tags == {0, 1}
Offsets == {1, 3}
Points == {<<1, 2, 3>>}
Lengths == {<<10, 10, 2>>, <<4, 2, 2>>}
AxisArgs(u) == {None, V0, scale(u, 2)}
OffSeqs == UNION {[0..n -> Offsets] : n \in 0..MaxIdx}
Indices == (-(MaxIdx + 1))..(MaxIdx + 1)
Anchors == (-MaxIdx)..MaxIdx
NewOffsets == {Num(9)}
NewShapes == {shp_boxcen(1, 1, 1, V0)}
Registrations == Children \X Tags \X ReplayNames
RegSeqs == UNION {[1..n -> Registrations] : n \in 1..MaxRegs}
(* The orders to replay n registrations in: as given, or with two         *)
(* neighbours exchanged (every order is a chain of such exchanges) *)
Swap(n, a, b) == [i \in 1..n |-> IF i = a THEN b ELSE IF i = b THEN a ELSE i]
Orders(n) == {Swap(n, a, a) : a \in 1..n} \cup {Swap(n, a, a + 1) : a \in 1..(n - 1)}

(* The two parts used as children: a slab and a hole through its edge *)
Parts ==
    [c \in Children |->
        IF c = "c1" THEN placa_init(Blank, 2, 2, 2, VX, VY, VZ)
        ELSE hole_init(Blank, 1, 2, VX, VY, VZ, <<2, 1, 0>>)]

(* What a parent's record of a child stands for: the contents of the dict  *)
(* objects it refers to, and the shape it holds *)
Deref(rec) ==
    [d_o |-> child[rec.child_d_o[1]][rec.child_d_o[2]],
     w_o |-> child[rec.child_w_o[1]][rec.child_w_o[2]],
     h_o |-> child[rec.child_h_o[1]][rec.child_h_o[2]],
     shp |-> rec.child_shp]

Call(op, args, r) ==
    [op |-> op, args |-> args, out |-> r.out, val |-> r.val, exc |-> r.exc,
     log |-> r.log]

NoCall == Call("", <<>>, Ok(None))

-----------------------------------------------------------------------------
(* Frames: construction and position queries on self *)

InitFrame ==
    /\ self = Blank
    /\ child = Parts
    /\ ret = NoCall
    /\ nadd = 0
    /\ nmut = 0
    /\ other = Blank
    /\ regs = <<>>
    /\ perm = <<>>
    /\ step = 0

Constructed == "d_o" \in self.attrs

Rest == <<child, nadd, nmut, other, regs, perm, step>>

(* Obj3D(axis_d, axis_w, axis_h) *)
Do_Obj3D_init ==
    /\ self = Blank
    /\ \E axis_d \in AxisArgs(VX), axis_w \in AxisArgs(VY), axis_h \in AxisArgs(VZ) :
        /\ self' = Obj3D_init(self, axis_d, axis_w, axis_h)
        /\ ret' = Call("Obj3D.__init__", <<axis_d, axis_w, axis_h>>, Ok(None))
    /\ UNCHANGED Rest

(* placa(L_d, L_w, L_h) *)
Do_placa_init ==
    /\ self = Blank
    /\ \E L \in Lengths :
        /\ self' = placa_init(self, L[1], L[2], L[3], VX, VY, VZ)
        /\ ret' = Call("placa.__init__", L, Ok(None))
    /\ UNCHANGED Rest

(* The constructor of a part derived from Obj3D as the class describes it: *)
(* it calls Obj3D.__init__, fills the index maps with vectors along the    *)
(* axes, says which axes have index 0 at their centre, and records the     *)
(* placement point and the indices it is anchored at.                      *)
derived_init(obj, offs_d, offs_w, offs_h, cen, pos, anchor) ==
    LET o0 == Obj3D_init(obj, VX, VY, VZ)
    IN  [o0 EXCEPT
            !.d_o = [k \in DOMAIN offs_d |-> vec_d(o0, offs_d[k])],
            !.w_o = [k \in DOMAIN offs_w |-> vec_w(o0, offs_w[k])],
            !.h_o = [k \in DOMAIN offs_h |-> vec_h(o0, offs_h[k])],
            !.d0_cen = cen[1], !.w0_cen = cen[2], !.h0_cen = cen[3],
            !.pos = pos,
            !.pos_d = anchor[1], !.pos_w = anchor[2], !.pos_h = anchor[3],
            !.attrs = @ \cup {"d0_cen", "w0_cen", "h0_cen", "pos",
                              "pos_d", "pos_w", "pos_h"}]

(* Do_derived_init varies one axis: its offsets, its anchor and its        *)
(* symmetry flag.  The two other axes have offsets 0 and 1, anchor 1, and  *)
(* the opposite symmetry flag.                                             *)
PlainOffs == (0 :> 0) @@ (1 :> 1)

Do_derived_init ==
    /\ self = Blank
    /\ \E ax \in 1..3, offs \in OffSeqs, a \in Anchors, c1 \in {0, 1}, pos \in Points :
        LET pick(i, x, y) == IF i = ax THEN x ELSE y
            c2 == 1 - c1
        IN  /\ self' = derived_init(self, pick(1, offs, PlainOffs),
                           pick(2, offs, PlainOffs), pick(3, offs, PlainOffs),
                           <<pick(1, c1, c2), pick(2, c1, c2), pick(3, c1, c2)>>,
                           pos, <<pick(1, a, 1), pick(2, a, 1), pick(3, a, 1)>>)
            /\ ret' = Call("derived.__init__", <<ax, a, c1>>, Ok(None))
    /\ UNCHANGED Rest

Do_get_o_to_d ==
    /\ Constructed
    /\ \E p \in Indices : ret' = Call("get_o_to_d", <<p>>, get_o_to_d(self, p))
    /\ UNCHANGED <<self, Rest>>

Do_get_o_to_w ==
    /\ Constructed
    /\ \E p \in Indices : ret' = Call("get_o_to_w", <<p>>, get_o_to_w(self, p))
    /\ UNCHANGED <<self, Rest>>

Do_get_o_to_h ==
    /\ Constructed
    /\ \E p \in Indices : ret' = Call("get_o_to_h", <<p>>, get_o_to_h(self, p))
    /\ UNCHANGED <<self, Rest>>

Do_set_pos_o ==
    /\ Constructed
    /\ \E adjust \in {0, 1} :
        /\ self' = set_pos_o(self, adjust).obj
        /\ ret' = Call("set_pos_o", <<adjust>>, set_pos_o(self, adjust).ret)
    /\ UNCHANGED Rest

Do_get_pos_dwh ==
    /\ Constructed
    /\ \E a \in {<<self.pos_d, self.pos_w, self.pos_h>>, <<0, 0, 0>>} :
        ret' = Call("get_pos_dwh", a, get_pos_dwh(self, a[1], a[2], a[3]))
    /\ UNCHANGED <<self, Rest>>

NextFrame ==
    \/ Do_Obj3D_init
    \/ Do_placa_init
    \/ Do_derived_init
    \/ Do_get_o_to_d
    \/ Do_get_o_to_w
    \/ Do_get_o_to_h
    \/ Do_set_pos_o
    \/ Do_get_pos_dwh

SpecFrame == InitFrame /\ [][NextFrame]_vars

-----------------------------------------------------------------------------
(* Properties of the frame *)

(* The three axes: the method, the symmetry flag, the index map, the anchor *)
Axes ==
    {<<"get_o_to_d", "d0_cen", "d_o", "pos_d">>,
     <<"get_o_to_w", "w0_cen", "w_o", "pos_w">>,
     <<"get_o_to_h", "h0_cen", "h_o", "pos_h">>}

Centered(x) == x[2] \in self.attrs /\ self[x[2]] = 1
NotCentered(x) == x[2] \in self.attrs /\ self[x[2]] = 0

(* get_o_to_d, _w or _h(p) on the axis x of self *)
Resolve(x, p) ==
    IF x[1] = "get_o_to_d" THEN get_o_to_d(self, p)
    ELSE IF x[1] = "get_o_to_w" THEN get_o_to_w(self, p)
    ELSE get_o_to_h(self, p)

(* The last call resolved, on the non-centered axis x, an index that is    *)
(* not a key of the axis's index map *)
C1_MissingKeyCall(x) ==
    /\ ret.op = x[1]
    /\ NotCentered(x)
    /\ ret.args[1] \notin DOMAIN self[x[3]]

(* C1: on an axis that is not centered, resolving an index that is not a   *)
(* key of the axis's index map fails: the call raises, so the caller gets  *)
(* no value at all (the index map is never written by the call).           *)
C1_UndefinedIndexSurfaced ==
    \A x \in Axes : C1_MissingKeyCall(x) => ret.out = "raise"

FreshSlab == placa_init(Blank, 10, 10, 2, VX, VY, VZ)

(* C7: a freshly constructed placa(10, 10, 2) has no centering on any axis *)
(* (the three flags are 0), and get_o_to_d(1) on it returns 5.             *)
C7_SlabResolves ==
    self = FreshSlab =>
        /\ \A x \in Axes : NotCentered(x)
        /\ (ret.op = "get_o_to_d" /\ ret.args = <<1>>) =>
               (ret.out = "return" /\ ret.val = Num(5))

(* C9: Obj3D.__init__ given a zero-length axis vector raises and leaves    *)
(* the instance without any attribute: no index map is written and no      *)
(* axis is ever the zero vector that was supplied.                         *)
C9_DegenerateAxisRejected ==
    (ret.op = "Obj3D.__init__" /\ \E i \in 1..3 : ret.args[i] = V0) =>
        (ret.out = "raise" /\ self = Blank)

(* The placement point and the anchors of self are set, and each anchor    *)
(* resolves to a vector on its axis *)
C10_Placed ==
    /\ {"pos", "pos_d", "pos_w", "pos_h"} \subseteq self.attrs
    /\ IsVec(self.pos)
    /\ \A x \in Axes : LET r == Resolve(x, self[x[4]])
                       IN  r.out = "return" /\ IsVec(r.val)

C10_FromOrigin ==
    PyAdd(PyAdd(get_o_to_d(self, self.pos_d).val,
                get_o_to_w(self, self.pos_w).val).val,
          get_o_to_h(self, self.pos_h).val).val

C10_AfterSetPosO ==
    (ret.op = "set_pos_o" /\ C10_Placed) =>
        /\ ret.out = "return"
        /\ Ok(self.pos_o) = VecSub(self.pos, C10_FromOrigin)
        /\ get_pos_dwh(self, self.pos_d, self.pos_w, self.pos_h).val = self.pos
        /\ ret.args = <<1>> => Ok(self.pos_o_adjust) = VecSub(self.pos_o, self.pos)

C10_AdjustKept ==
    (ret'.op = "set_pos_o" /\ ret'.args # <<1>>) =>
        self'.pos_o_adjust = self.pos_o_adjust

C10_AdjustOrigin ==
    (Constructed /\ self.pos_o_adjust # V0) =>
        ("pos_o" \in self.attrs /\ Ok(self.pos_o_adjust) = VecSub(self.pos_o, self.pos))

-----------------------------------------------------------------------------
(* Composition: children registered on the parent self *)

(* A parent is either a composite part, built by Obj3D.__init__ alone and  *)
(* so without a shape of its own, or a leaf part that has set its shape.   *)
Init ==
    /\ self \in {Obj3D_init(Blank, VX, VY, VZ),
                 placa_init(Blank, 4, 2, 2, VX, VY, VZ)}
    /\ child = Parts
    /\ ret = NoCall
    /\ nadd = 0
    /\ nmut = 0
    /\ other = Blank
    /\ regs = <<>>
    /\ perm = <<>>
    /\ step = 0

Replay == <<other, regs, perm, step>>

(* self.add_child(child, child_sum, child_name) *)
Do_add_child ==
    /\ nadd < MaxAdds
    /\ \E c \in Children, child_sum \in Tags, child_name \in Names :
        /\ self' = add_child(self, c, child_sum, child_name)
        /\ ret' = Call("add_child", <<c, child_sum, child_name>>, Ok(None))
    /\ nadd' = nadd + 1
    /\ UNCHANGED <<child, nmut, Replay>>

(* self.make_parent(name) *)
Do_make_parent ==
    /\ self' = make_parent(self, "name").obj
    /\ ret' = Call("make_parent", <<"name">>, make_parent(self, "name").ret)
    /\ UNCHANGED <<child, nadd, nmut, Replay>>

(* child.d_o[k] = v (or w_o, h_o), an item assignment as the constructors  *)
(* make, done on a child after its construction *)
SetOffset(c, o, k, v) == [child EXCEPT ![c][o] = (k :> v) @@ @]

Do_child_set_offset ==
    /\ nmut < MaxMuts
    /\ \E c \in Children, o \in {"d_o", "w_o", "h_o"}, k \in {1}, v \in NewOffsets :
        /\ child' = SetOffset(c, o, k, v)
        /\ ret' = Call("child_set_offset", <<c, o>>, Ok(None))
    /\ nmut' = nmut + 1
    /\ UNCHANGED <<self, nadd, Replay>>

(* child.shp = shape, the assignment that gives a part its shape, done on  *)
(* a child after its construction *)
SetShape(c, shape) == [child EXCEPT ![c].shp = shape]

Do_child_set_shp ==
    /\ nmut < MaxMuts
    /\ \E c \in Children, shape \in NewShapes :
        /\ child' = SetShape(c, shape)
        /\ ret' = Call("child_set_shp", <<c>>, Ok(None))
    /\ nmut' = nmut + 1
    /\ UNCHANGED <<self, nadd, Replay>>

Next ==
    \/ Do_add_child
    \/ Do_make_parent
    \/ Do_child_set_offset
    \/ Do_child_set_shp

Spec == Init /\ [][Next]_vars

-----------------------------------------------------------------------------
(* Replaying one list of registrations on two parents, in two orders *)

InitPerm ==
    /\ self = Obj3D_init(Blank, VX, VY, VZ)
    /\ other = Obj3D_init(Blank, VX, VY, VZ)
    /\ child = Parts
    /\ ret = NoCall
    /\ nadd = 0
    /\ nmut = 0
    /\ regs \in RegSeqs
    /\ perm \in Orders(Len(regs))
    /\ step = 0

(* the next add_child on each parent *)
Do_add_child_both ==
    /\ step < Len(regs)
    /\ LET r == regs[step + 1]
           q == regs[perm[step + 1]]
       IN  /\ self' = add_child(self, r[1], r[2], r[3])
           /\ other' = add_child(other, q[1], q[2], q[3])
           /\ ret' = Call("add_child", r, Ok(None))
    /\ step' = step + 1
    /\ UNCHANGED <<child, nadd, nmut, regs, perm>>

(* make_parent on each parent, once every registration is made *)
Do_make_parent_both ==
    /\ step = Len(regs)
    /\ self' = make_parent(self, "name").obj
    /\ other' = make_parent(other, "name").obj
    /\ ret' = Call("make_parent", <<"name">>, make_parent(self, "name").ret)
    /\ step' = step + 1
    /\ UNCHANGED <<child, nadd, nmut, regs, perm>>

NextPerm ==
    \/ Do_add_child_both
    \/ Do_make_parent_both

SpecPerm == InitPerm /\ [][NextPerm]_vars

-----------------------------------------------------------------------------
(* Properties of the composition *)

Tables == {"dict_child", "dict_child_sum", "dict_child_res"}
ShapesIn(d) == {d[i][2].child_shp : i \in 1..Len(d)}

(* C2: after make_parent on a parent with at least one registered child,   *)
(* the parent's shape is the union of the shapes recorded in the additive  *)
(* table minus the union of the shapes recorded in the subtractive table,  *)
(* and no child is in both tables.                                         *)
C2_ShapeIsSumMinusRes ==
    (ret.op = "make_parent" /\ Len(self.dict_child) >= 1) =>
        /\ "shp" \in self.attrs
        /\ self.shp = (UNION ShapesIn(self.dict_child_sum))
                          \ (UNION ShapesIn(self.dict_child_res))
        /\ KeySet(self.dict_child_sum) \cap KeySet(self.dict_child_res) = {}

(* C3: every registered child name is in exactly one of the additive and   *)
(* the subtractive table, and right after add_child(c, tag, n) the entry   *)
(* of n in the full table and in the table of the tag is the record of c.  *)
C3_ExactlyOneTable ==
    /\ \A n \in KeySet(self.dict_child) :
          ~(n \in KeySet(self.dict_child_sum) <=> n \in KeySet(self.dict_child_res))
    /\ ret.op = "add_child" =>
          LET n == ret.args[3]
              tab == IF ret.args[2] = 1 THEN self.dict_child_sum
                     ELSE self.dict_child_res
          IN  /\ n \in KeySet(self.dict_child) /\ n \in KeySet(tab)
              /\ DictGet(self.dict_child, n) = ChildRecord(ret.args[1])
              /\ DictGet(tab, n) = ChildRecord(ret.args[1])

C4_RecordKept ==
    ret'.op \in {"child_set_offset", "child_set_shp"} =>
        \A t \in Tables : \A i \in 1..Len(self[t]) :
            Deref(self[t][i][2])' = Deref(self[t][i][2])

(* C4: a modification of a child's index maps or shape made after          *)
(* add_child has returned leaves what the parent's records of that child   *)
(* hold (child_d_o, child_w_o, child_h_o, child_shp, in the full table and *)
(* in the sub-tables) as it was.                                           *)
C4_SnapshotByValue == [][C4_RecordKept]_vars

C8_Noop ==
    (ret'.op = "make_parent" /\ Len(self.dict_child) = 0) =>
        (self' = self /\ ret'.out = "return")

(* C8: make_parent on a parent without registered children changes        *)
(* nothing of the parent (its shape, set or not, and its three tables) and *)
(* raises nothing.                                                         *)
C8_NoChildrenNoop == [][C8_Noop]_vars

(* make_parent was called on a leaf part without children, which still has *)
(* the shape it gave itself *)
C8_Witness ==
    /\ ret.op = "make_parent" /\ ret.out = "return"
    /\ Len(self.dict_child) = 0
    /\ "shp" \in self.attrs /\ self.shp # {}

(* C12: after any sequence of add_child calls on a fresh parent the keys   *)
(* of dict_child are the keys of dict_child_sum together with those of     *)
(* dict_child_res, so dict_child is never non-empty while both sub-tables  *)
(* are empty.                                                              *)
C12_KeySetsAgree ==
    /\ KeySet(self.dict_child) =
           KeySet(self.dict_child_sum) \cup KeySet(self.dict_child_res)
    /\ ~(/\ Len(self.dict_child) > 0
          /\ Len(self.dict_child_sum) = 0
          /\ Len(self.dict_child_res) = 0)

(* two add_child calls have registered a subtractive child only, under two *)
(* names *)
C12_Witness ==
    /\ nadd = 2
    /\ ret.op = "add_child"
    /\ Len(self.dict_child) = 2
    /\ Len(self.dict_child_sum) = 0
    /\ Len(self.dict_child_res) = 2

C11_SecondCallSame ==
    ret.op = "make_parent" =>
        LET again == make_parent(self, "name")
        IN  /\ again.ret.out = "return"
            /\ again.obj.shp = self.shp
            /\ "shp" \in again.obj.attrs <=> "shp" \in self.attrs

C11_TablesKept ==
    ret'.op = "make_parent" =>
        \A t \in Tables : self'[t] = self[t]

(* C11: make_parent called again right after make_parent, with no          *)
(* add_child and no change to a child in between, leaves the parent with   *)
(* the shape the first call gave it, and no call of make_parent changes    *)
(* any of the three child tables.                                          *)
C11_Idempotent == []C11_SecondCallSame /\ [][C11_TablesKept]_vars

(* make_parent has built a solid from an additive and a subtractive child  *)
(* on a parent that had a shape of its own, and can be called again *)
C11_Witness ==
    /\ ret.op = "make_parent" /\ ret.val = SelfRef
    /\ Len(self.dict_child_sum) >= 1 /\ Len(self.dict_child_res) >= 1
    /\ self.shp # {}
    /\ self.shp # UNION ShapesIn(self.dict_child_sum)
    /\ "d_o" \in self.attrs /\ 1 \in DOMAIN self.d_o

-----------------------------------------------------------------------------
(* Properties of the replay in two orders *)

C6_Done == step = Len(regs) + 1

C6_SameShape ==
    /\ "shp" \in self.attrs <=> "shp" \in other.attrs
    /\ self.shp = other.shp

C6_DistinctNames ==
    \A i, j \in 1..Len(regs) : regs[i][3] = regs[j][3] => i = j

(* C6 as stated: the same registrations made in another order give, after  *)
(* make_parent, the same parent shape.                                     *)
C6_OrderIndependent == C6_Done => C6_SameShape

(* C6 amended: registrations under pairwise distinct child names, made in  *)
(* another order, give after make_parent the same parent shape.            *)
C6_OrderIndependentDistinctNames == (C6_Done /\ C6_DistinctNames) => C6_SameShape

(* Three registrations under three names, additive and subtractive, were   *)
(* replayed in two different orders and left a solid *)
C6_Witness ==
    /\ C6_Done /\ C6_DistinctNames
    /\ Len(regs) = 3
    /\ perm # [i \in 1..3 |-> i]
    /\ \E i, j \in 1..3 : regs[i][2] = 1 /\ regs[j][2] = 0
    /\ self.dict_child # other.dict_child
    /\ self.shp # {}

====
